---- MODULE Spec2Model ----
(***************************************************************************)
(* Account store and derived list pages of server.js.                      *)
(*                                                                         *)
(* Every request handler is an async function: it runs atomically between  *)
(* two awaits and may interleave with other requests at each await.  One   *)
(* action models the code from one awaited I/O operation up to the next    *)
(* one.  Strings are sequences of one-character strings, so that           *)
(* toLowerCase and escapeHtml are computed character by character.         *)
(***************************************************************************)
EXTENDS Integers, Sequences, FiniteSets, TLC

\* ------------------------------------------------------------------ bounds
NumProcs == 2          \* requests served, all of which may be in flight together

Procs == 1..NumProcs

\* ------------------------------------------------------------- characters
LowerChars == {"a", "b", "n", "o", "x"}
UpperChars == {"A", "B", "N", "O", "X"}
DigitChars == {"1", "2", "9"}

\* String.prototype.toLowerCase on one character
LowerChar(c) ==
    CASE c = "A" -> "a"
      [] c = "B" -> "b"
      [] c = "N" -> "n"
      [] c = "O" -> "o"
      [] c = "X" -> "x"
      [] OTHER -> c

toLowerCase(s) == [i \in 1..Len(s) |-> LowerChar(s[i])]

\* a request body field that is not present
Undefined == <<"undefined">>

\* v || ''
OrEmpty(v) == IF v = Undefined \/ v = <<>> THEN <<>> ELSE v

\* JavaScript truthiness of a body field (a string or undefined)
Truthy(v) == v # Undefined /\ v # <<>>

\* ------------------------------------------------------------ validators
\* body(f).isLength({ min: n })
IsLengthMin(v, n) == v # Undefined /\ Len(v) >= n

\* .matches(/^[a-zA-Z0-9_\-]+$/)
MatchesUsername(v) ==
    /\ v # Undefined
    /\ Len(v) >= 1
    /\ \A i \in 1..Len(v) :
           v[i] \in LowerChars \cup UpperChars \cup DigitChars \cup {"_", "-"}

PasswordMinLength == 8

\* isStrongPassword({minLength: 8, minLowercase: 1, minUppercase: 1, minNumbers: 1, minSymbols: 0})
IsStrongPassword(v) ==
    /\ v # Undefined
    /\ Len(v) >= PasswordMinLength
    /\ \E i \in 1..Len(v) : v[i] \in LowerChars
    /\ \E i \in 1..Len(v) : v[i] \in UpperChars
    /\ \E i \in 1..Len(v) : v[i] \in DigitChars

LibRegisterValid(r) ==
    /\ IsLengthMin(r.username, 3)
    /\ MatchesUsername(r.username)
    /\ IsLengthMin(r.fullname, 3)
    /\ IsStrongPassword(r.password)

StudRegisterValid(r) ==
    /\ IsLengthMin(r.name, 3)
    /\ IsLengthMin(r.grade, 1)
    /\ IsLengthMin(r.section, 1)
    /\ IsLengthMin(r.passcode, 4)

\* ------------------------------------------------------------------ bcrypt
BcryptRounds == 10

Salts == {"saltA", "saltB"}

\* bcrypt.hash(secret, 10) with the salt it generated
BcryptHash(secret, salt) ==
    [rounds |-> BcryptRounds, salt |-> salt, digest |-> <<"digest", salt, secret>>]

\* bcrypt.compare(secret, hash), secret a string
BcryptCompare(secret, hash) ==
    hash = BcryptHash(secret, hash.salt)

\* ------------------------------------------------------------ sanitizeUser
sanitizeUser(user, role) ==
    IF role = "librarian"
    THEN [id |-> user.id, username |-> user.username,
          fullname |-> user.fullname, role |-> "librarian"]
    ELSE [id |-> user.id, name |-> user.name, grade |-> user.grade,
          section |-> user.section, role |-> "student"]

\* -------------------------------------------------------------- escapeHtml
\* the replacements without the one of &
EscapeCharKeepsAmp(c) ==
    CASE c = "<" -> <<"&", "l", "t", ";">>
      [] c = ">" -> <<"&", "g", "t", ";">>
      [] c = "\"" -> <<"&", "q", "u", "o", "t", ";">>
      [] OTHER -> <<c>>

EscapeChar(c) ==
    CASE c = "&" -> <<"&", "a", "m", "p", ";">>
      [] c = "<" -> <<"&", "l", "t", ";">>
      [] c = ">" -> <<"&", "g", "t", ";">>
      [] c = "\"" -> <<"&", "q", "u", "o", "t", ";">>
      [] OTHER -> <<c>>

RECURSIVE EscapeSeq(_)
EscapeSeq(s) == IF s = <<>> THEN <<>> ELSE EscapeChar(Head(s)) \o EscapeSeq(Tail(s))

escapeHtml(s) == IF s = Undefined \/ s = <<>> THEN <<>> ELSE EscapeSeq(s)

\* ------------------------------------------------------------- list pages
\* one card of students-list.html
StudentCard(s) ==
    [name |-> escapeHtml(s.name), grade |-> escapeHtml(s.grade),
     section |-> escapeHtml(s.section)]

\* one card of librarians-list.html
LibrarianCard(l) ==
    [title |-> escapeHtml(IF Truthy(l.fullname) THEN l.fullname ELSE l.username),
     username |-> escapeHtml(l.username)]

\* the page written by generateStudentsListPage(students)
generateStudentsListPage(students) ==
    [exists |-> TRUE,
     cards |-> [i \in 1..Len(students) |-> StudentCard(students[i])],
     placeholder |-> (Len(students) = 0)]

\* the page written by generateLibrariansListPage(libs)
generateLibrariansListPage(libs) ==
    [exists |-> TRUE,
     cards |-> [i \in 1..Len(libs) |-> LibrarianCard(libs[i])],
     placeholder |-> (Len(libs) = 0)]

NoPage == [exists |-> FALSE, cards |-> <<>>, placeholder |-> FALSE]

\* --------------------------------------------------------- uniqueness keys
\* the comparison without toLowerCase
LibKeyMatchExact(l, username) == l.username = username

\* l.username.toLowerCase() === username.toLowerCase()
LibKeyMatch(l, username) == toLowerCase(l.username) = toLowerCase(username)

\* the comparison without toLowerCase
StudKeyMatchExact(s, name, grade, section) ==
    /\ s.name = name
    /\ s.grade = grade
    /\ s.section = section

\* s.name.toLowerCase() === name.toLowerCase() && s.grade === grade && ...
StudKeyMatch(s, name, grade, section) ==
    /\ toLowerCase(s.name) = toLowerCase(name)
    /\ s.grade = grade
    /\ toLowerCase(s.section) = toLowerCase(section)

\* Array.prototype.find: index of the first element satisfying the test, 0 if none
FindLib(libs, username) ==
    IF \E i \in 1..Len(libs) : LibKeyMatch(libs[i], username)
    THEN CHOOSE i \in 1..Len(libs) :
             /\ LibKeyMatch(libs[i], username)
             /\ \A j \in 1..(i - 1) : ~LibKeyMatch(libs[j], username)
    ELSE 0

FindStud(studs, name, grade, section) ==
    IF \E i \in 1..Len(studs) : StudKeyMatch(studs[i], name, grade, section)
    THEN CHOOSE i \in 1..Len(studs) :
             /\ StudKeyMatch(studs[i], name, grade, section)
             /\ \A j \in 1..(i - 1) : ~StudKeyMatch(studs[j], name, grade, section)
    ELSE 0

\* ---------------------------------------------------------- request bodies
ann == <<"a", "n", "n">>
ANN == <<"A", "N", "N">>
bob == <<"b", "o", "b">>
FullName == <<"A", "<", "n">>
Password1 == <<"A", "b", "a", "n", "b", "o", "x", "1">>
Password2 == <<"X", "o", "x", "o", "b", "a", "n", "2">>
Passcode1 == <<"1", "2", "1", "2">>
Passcode2 == <<"9", "9", "9", "9">>

LibRegisterRequests ==
    {[route |-> "librarian/register", username |-> u, fullname |-> FullName,
      password |-> Password1] : u \in {ann, ANN, bob, <<"a", "n">>}}

LibLoginRequests ==
    {[route |-> "librarian/login", username |-> u, password |-> w] :
        u \in {ann}, w \in {Password1, Password2, Undefined}}
    \cup {[route |-> "librarian/login", username |-> ANN, password |-> Password1]}

StudRegisterRequests ==
    {[route |-> "student/register", name |-> k[1], grade |-> k[2],
      section |-> k[3], passcode |-> k[4]] :
        k \in {<<ann, <<"a">>, <<"x">>, Passcode1>>,
               <<ANN, <<"a">>, <<"X">>, Passcode1>>,
               <<ann, <<"A">>, <<"x">>, Passcode1>>,
               <<ann, <<"a">>, <<"x">>, <<"1">> >>}}

StudLoginRequests ==
    {[route |-> "student/login", name |-> ann, grade |-> <<"a">>,
      section |-> <<"x">>, passcode |-> w] :
        w \in {Passcode1, Passcode2, Undefined, <<>>}}
    \cup {[route |-> "student/login", name |-> ANN, grade |-> <<"a">>,
           section |-> <<"X">>, passcode |-> Passcode1]}

\* GET /api/profile/:role/:id; ids are the values uuidv4() can have returned
ProfileRequests ==
    {[route |-> "profile", role |-> r, id |-> i] :
        r \in {"librarian", "student"}, i \in 1..NumProcs}

Requests ==
    LibRegisterRequests \cup LibLoginRequests
        \cup StudRegisterRequests \cup StudLoginRequests
        \cup ProfileRequests

\* ------------------------------------------------------------------- state
LIB_FILE == "librarians.json"
STUD_FILE == "students.json"
STUD_PAGE == "students-list.html"
LIB_PAGE == "librarians-list.html"

NoFile == [exists |-> FALSE, data |-> <<>>]
NoRequest == [route |-> "none"]
NoUser == [id |-> 0]
NoResponse == [status |-> 0]
NoLocals == [list |-> <<>>, user |-> NoUser, students |-> <<>>, libs |-> <<>>]

VARIABLES
    files,      \* data/librarians.json and data/students.json
    pages,      \* public/lists/students-list.html and librarians-list.html
    pc,         \* where each request is in its handler
    req,        \* each request's route and body
    loc,        \* each handler's local variables
    resp,       \* the response each request has been sent
    nextId      \* the next value uuidv4() returns

vars == <<files, pages, pc, req, loc, resp, nextId>>

Init ==
    /\ files = [f \in {LIB_FILE, STUD_FILE} |-> NoFile]
    /\ pages = [f \in {STUD_PAGE, LIB_PAGE} |-> NoPage]
    /\ pc = [p \in Procs |-> "idle"]
    /\ req = [p \in Procs |-> NoRequest]
    /\ loc = [p \in Procs |-> NoLocals]
    /\ resp = [p \in Procs |-> NoResponse]
    /\ nextId = 1

\* a request arrives
Receive(p) ==
    /\ pc[p] = "idle"
    /\ \E r \in Requests : req' = [req EXCEPT ![p] = r]
    /\ pc' = [pc EXCEPT ![p] = "ensure_lib"]
    /\ UNCHANGED <<files, pages, loc, resp, nextId>>

\* -------------------------------------------------------------- ensureFiles
\* ensureDir x 2, then pathExists(LIB_FILE)
EnsureLibCheck(p) ==
    /\ pc[p] = "ensure_lib"
    /\ pc' = [pc EXCEPT ![p] =
                 IF files[LIB_FILE].exists THEN "ensure_stud" ELSE "ensure_lib_write"]
    /\ UNCHANGED <<files, pages, req, loc, resp, nextId>>

\* fs.writeJson(LIB_FILE, [])
EnsureLibWrite(p) ==
    /\ pc[p] = "ensure_lib_write"
    /\ files' = [files EXCEPT ![LIB_FILE] = [exists |-> TRUE, data |-> <<>>]]
    /\ pc' = [pc EXCEPT ![p] = "ensure_stud"]
    /\ UNCHANGED <<pages, req, loc, resp, nextId>>

\* pathExists(STUD_FILE)
EnsureStudCheck(p) ==
    /\ pc[p] = "ensure_stud"
    /\ pc' = [pc EXCEPT ![p] =
                 IF files[STUD_FILE].exists THEN "handler" ELSE "ensure_stud_write"]
    /\ UNCHANGED <<files, pages, req, loc, resp, nextId>>

\* fs.writeJson(STUD_FILE, [])
EnsureStudWrite(p) ==
    /\ pc[p] = "ensure_stud_write"
    /\ files' = [files EXCEPT ![STUD_FILE] = [exists |-> TRUE, data |-> <<>>]]
    /\ pc' = [pc EXCEPT ![p] = "handler"]
    /\ UNCHANGED <<pages, req, loc, resp, nextId>>

\* ------------------------------------------------------ regenerateListFiles
\* const students = await readJson(STUD_FILE)
RegenReadStudents(p) ==
    /\ pc[p] = "regen_read_students"
    /\ loc' = [loc EXCEPT ![p].students = files[STUD_FILE].data]
    /\ pc' = [pc EXCEPT ![p] = "regen_read_libs"]
    /\ UNCHANGED <<files, pages, req, resp, nextId>>

\* a regeneration that renders the inserted kind from the sequence the request
\* loaded before its save
RegenReadLibsStale(p) ==
    /\ pc[p] = "regen_read_libs"
    /\ loc' = [loc EXCEPT ![p].libs =
                   IF req[p].route = "librarian/register"
                   THEN SubSeq(loc[p].list, 1, Len(loc[p].list) - 1)
                   ELSE files[LIB_FILE].data]
    /\ pc' = [pc EXCEPT ![p] = "regen_write_students"]
    /\ UNCHANGED <<files, pages, req, resp, nextId>>

\* const libs = await readJson(LIB_FILE)
RegenReadLibs(p) ==
    /\ pc[p] = "regen_read_libs"
    /\ loc' = [loc EXCEPT ![p].libs = files[LIB_FILE].data]
    /\ pc' = [pc EXCEPT ![p] = "regen_write_students"]
    /\ UNCHANGED <<files, pages, req, resp, nextId>>

\* a regeneration that leaves the students page as it is
RegenWriteStudentsSkipped(p) ==
    /\ pc[p] = "regen_write_students"
    /\ pc' = [pc EXCEPT ![p] = "regen_write_libs"]
    /\ UNCHANGED <<files, pages, req, loc, resp, nextId>>

\* await generateStudentsListPage(students)
RegenWriteStudents(p) ==
    /\ pc[p] = "regen_write_students"
    /\ pages' = [pages EXCEPT ![STUD_PAGE] = generateStudentsListPage(loc[p].students)]
    /\ pc' = [pc EXCEPT ![p] = "regen_write_libs"]
    /\ UNCHANGED <<files, req, loc, resp, nextId>>

\* await generateLibrariansListPage(libs)
RegenWriteLibs(p) ==
    /\ pc[p] = "regen_write_libs"
    /\ pages' = [pages EXCEPT ![LIB_PAGE] = generateLibrariansListPage(loc[p].libs)]
    /\ pc' = [pc EXCEPT ![p] = "respond"]
    /\ UNCHANGED <<files, req, loc, resp, nextId>>

\* readJson or fs.writeFile rejects inside regenerateListFiles: the handler's
\* await throws, nothing catches it, and the request is never answered
RegenFail(p) ==
    /\ pc[p] \in {"regen_read_students", "regen_read_libs",
                  "regen_write_students", "regen_write_libs"}
    /\ pc' = [pc EXCEPT ![p] = "threw_regen"]
    /\ UNCHANGED <<files, pages, req, loc, resp, nextId>>

\* ------------------------------------------- POST /api/librarian/register
\* validationResult(req) is not empty: 400
LibRegisterInvalid(p) ==
    /\ pc[p] = "handler"
    /\ req[p].route = "librarian/register"
    /\ ~LibRegisterValid(req[p])
    /\ resp' = [resp EXCEPT ![p] = [status |-> 400]]
    /\ pc' = [pc EXCEPT ![p] = "done"]
    /\ UNCHANGED <<files, pages, req, loc, nextId>>

\* the duplicate check without its return: 409 is sent and the handler goes on
LibRegisterLoadNoReturn(p) ==
    /\ pc[p] = "handler"
    /\ req[p].route = "librarian/register"
    /\ LibRegisterValid(req[p])
    /\ LET libs == files[LIB_FILE].data IN
       /\ resp' = [resp EXCEPT ![p] =
                      IF FindLib(libs, req[p].username) # 0
                      THEN [status |-> 409, error |-> "Username already exists"]
                      ELSE @]
       /\ loc' = [loc EXCEPT ![p].list = libs]
       /\ pc' = [pc EXCEPT ![p] = "lib_hash"]
    /\ UNCHANGED <<files, pages, req, nextId>>

\* libs = await readJson(LIB_FILE); the duplicate check
LibRegisterLoad(p) ==
    /\ pc[p] = "handler"
    /\ req[p].route = "librarian/register"
    /\ LibRegisterValid(req[p])
    /\ LET libs == files[LIB_FILE].data IN
       IF FindLib(libs, req[p].username) # 0
       THEN /\ resp' = [resp EXCEPT ![p] =
                           [status |-> 409, error |-> "Username already exists"]]
            /\ pc' = [pc EXCEPT ![p] = "done"]
            /\ UNCHANGED loc
       ELSE /\ loc' = [loc EXCEPT ![p].list = libs]
            /\ pc' = [pc EXCEPT ![p] = "lib_hash"]
            /\ UNCHANGED resp
    /\ UNCHANGED <<files, pages, req, nextId>>

\* readJson(LIB_FILE) rejects: the handler throws before the duplicate check
LibRegisterLoadFail(p) ==
    /\ pc[p] = "handler"
    /\ req[p].route = "librarian/register"
    /\ LibRegisterValid(req[p])
    /\ pc' = [pc EXCEPT ![p] = "threw_load"]
    /\ UNCHANGED <<files, pages, req, loc, resp, nextId>>

\* the id taken from the length of the loaded list instead of uuidv4()
LibRegisterHashIdFromLength(p) ==
    /\ pc[p] = "lib_hash"
    /\ \E salt \in Salts :
         LET user == [id |-> Len(loc[p].list) + 1, username |-> req[p].username,
                      fullname |-> req[p].fullname,
                      passwordHash |-> BcryptHash(req[p].password, salt)]
         IN loc' = [loc EXCEPT ![p].user = user, ![p].list = Append(@, user)]
    /\ nextId' = nextId + 1
    /\ pc' = [pc EXCEPT ![p] = "lib_save"]
    /\ UNCHANGED <<files, pages, req, resp>>

\* hash = await bcrypt.hash(password, 10); user = {id: uuidv4(), ...}; libs.push(user)
LibRegisterHash(p) ==
    /\ pc[p] = "lib_hash"
    /\ \E salt \in Salts :
         LET user == [id |-> nextId, username |-> req[p].username,
                      fullname |-> req[p].fullname,
                      passwordHash |-> BcryptHash(req[p].password, salt)]
         IN loc' = [loc EXCEPT ![p].user = user, ![p].list = Append(@, user)]
    /\ nextId' = nextId + 1
    /\ pc' = [pc EXCEPT ![p] = "lib_save"]
    /\ UNCHANGED <<files, pages, req, resp>>

\* a save that appends the new record to the sequence the file holds now
LibRegisterSaveMerged(p) ==
    /\ pc[p] = "lib_save"
    /\ files' = [files EXCEPT ![LIB_FILE] =
                     [exists |-> TRUE, data |-> Append(files[LIB_FILE].data, loc[p].user)]]
    /\ pc' = [pc EXCEPT ![p] = "regen_read_students"]
    /\ UNCHANGED <<pages, req, loc, resp, nextId>>

\* await writeJson(LIB_FILE, libs)
LibRegisterSave(p) ==
    /\ pc[p] = "lib_save"
    /\ files' = [files EXCEPT ![LIB_FILE] = [exists |-> TRUE, data |-> loc[p].list]]
    /\ pc' = [pc EXCEPT ![p] = "regen_read_students"]
    /\ UNCHANGED <<pages, req, loc, resp, nextId>>

\* the rejection of writeJson swallowed: the handler goes on without a save
LibRegisterSaveFailContinue(p) ==
    /\ pc[p] = "lib_save"
    /\ pc' = [pc EXCEPT ![p] = "regen_read_students"]
    /\ UNCHANGED <<files, pages, req, loc, resp, nextId>>

\* writeJson(LIB_FILE, libs) rejects: the handler throws, the file keeps the
\* sequence it held
LibRegisterSaveFail(p) ==
    /\ pc[p] = "lib_save"
    /\ pc' = [pc EXCEPT ![p] = "threw_save"]
    /\ UNCHANGED <<files, pages, req, loc, resp, nextId>>

\* res.json({ user: sanitizeUser(user, 'librarian') })
LibRegisterRespond(p) ==
    /\ pc[p] = "respond"
    /\ req[p].route = "librarian/register"
    /\ resp' = [resp EXCEPT ![p] =
                   [status |-> 200, user |-> sanitizeUser(loc[p].user, "librarian")]]
    /\ pc' = [pc EXCEPT ![p] = "done"]
    /\ UNCHANGED <<files, pages, req, loc, nextId>>

\* ---------------------------------------------- POST /api/librarian/login
\* the key miss answered 404 Not found
LibLoginLoadNotFound(p) ==
    /\ pc[p] = "handler"
    /\ req[p].route = "librarian/login"
    /\ LET libs == files[LIB_FILE].data
           i == FindLib(libs, OrEmpty(req[p].username))
       IN IF i = 0
          THEN /\ resp' = [resp EXCEPT ![p] = [status |-> 404, error |-> "Not found"]]
               /\ pc' = [pc EXCEPT ![p] = "done"]
               /\ UNCHANGED loc
          ELSE /\ loc' = [loc EXCEPT ![p].user = libs[i]]
               /\ pc' = [pc EXCEPT ![p] = "lib_compare"]
               /\ UNCHANGED resp
    /\ UNCHANGED <<files, pages, req, nextId>>

\* libs = await readJson(LIB_FILE); user = libs.find(...)
LibLoginLoad(p) ==
    /\ pc[p] = "handler"
    /\ req[p].route = "librarian/login"
    /\ LET libs == files[LIB_FILE].data
           i == FindLib(libs, OrEmpty(req[p].username))
       IN IF i = 0
          THEN /\ resp' = [resp EXCEPT ![p] =
                              [status |-> 401, error |-> "Invalid credentials"]]
               /\ pc' = [pc EXCEPT ![p] = "done"]
               /\ UNCHANGED loc
          ELSE /\ loc' = [loc EXCEPT ![p].user = libs[i]]
               /\ pc' = [pc EXCEPT ![p] = "lib_compare"]
               /\ UNCHANGED resp
    /\ UNCHANGED <<files, pages, req, nextId>>

\* the librarian login with the student login's "if (password)" around the check
LibLoginCompareOptional(p) ==
    /\ pc[p] = "lib_compare"
    /\ resp' = [resp EXCEPT ![p] =
                   IF Truthy(req[p].password)
                      => BcryptCompare(req[p].password, loc[p].user.passwordHash)
                   THEN [status |-> 200, user |-> sanitizeUser(loc[p].user, "librarian")]
                   ELSE [status |-> 401, error |-> "Invalid credentials"]]
    /\ pc' = [pc EXCEPT ![p] = "done"]
    /\ UNCHANGED <<files, pages, req, loc, nextId>>

\* ok = await bcrypt.compare(password, user.passwordHash), which rejects when
\* password is undefined: the handler ends without a response
LibLoginCompare(p) ==
    /\ pc[p] = "lib_compare"
    /\ IF req[p].password = Undefined
       THEN /\ pc' = [pc EXCEPT ![p] = "threw"]
            /\ UNCHANGED resp
       ELSE /\ resp' = [resp EXCEPT ![p] =
                           IF BcryptCompare(req[p].password, loc[p].user.passwordHash)
                           THEN [status |-> 200,
                                 user |-> sanitizeUser(loc[p].user, "librarian")]
                           ELSE [status |-> 401, error |-> "Invalid credentials"]]
            /\ pc' = [pc EXCEPT ![p] = "done"]
    /\ UNCHANGED <<files, pages, req, loc, nextId>>

\* --------------------------------------------- POST /api/student/register
StudRegisterInvalid(p) ==
    /\ pc[p] = "handler"
    /\ req[p].route = "student/register"
    /\ ~StudRegisterValid(req[p])
    /\ resp' = [resp EXCEPT ![p] = [status |-> 400]]
    /\ pc' = [pc EXCEPT ![p] = "done"]
    /\ UNCHANGED <<files, pages, req, loc, nextId>>

\* studs = await readJson(STUD_FILE); the duplicate check
StudRegisterLoad(p) ==
    /\ pc[p] = "handler"
    /\ req[p].route = "student/register"
    /\ StudRegisterValid(req[p])
    /\ LET studs == files[STUD_FILE].data IN
       IF FindStud(studs, req[p].name, req[p].grade, req[p].section) # 0
       THEN /\ resp' = [resp EXCEPT ![p] =
                           [status |-> 409, error |-> "Student account already exists"]]
            /\ pc' = [pc EXCEPT ![p] = "done"]
            /\ UNCHANGED loc
       ELSE /\ loc' = [loc EXCEPT ![p].list = studs]
            /\ pc' = [pc EXCEPT ![p] = "stud_hash"]
            /\ UNCHANGED resp
    /\ UNCHANGED <<files, pages, req, nextId>>

\* readJson(STUD_FILE) rejects: the handler throws before the duplicate check
StudRegisterLoadFail(p) ==
    /\ pc[p] = "handler"
    /\ req[p].route = "student/register"
    /\ StudRegisterValid(req[p])
    /\ pc' = [pc EXCEPT ![p] = "threw_load"]
    /\ UNCHANGED <<files, pages, req, loc, resp, nextId>>

\* studs.unshift(user) in place of studs.push(user)
StudRegisterHashUnshift(p) ==
    /\ pc[p] = "stud_hash"
    /\ \E salt \in Salts :
         LET user == [id |-> nextId, name |-> req[p].name, grade |-> req[p].grade,
                      section |-> req[p].section,
                      passHash |-> BcryptHash(req[p].passcode, salt)]
         IN loc' = [loc EXCEPT ![p].user = user, ![p].list = <<user>> \o @]
    /\ nextId' = nextId + 1
    /\ pc' = [pc EXCEPT ![p] = "stud_save"]
    /\ UNCHANGED <<files, pages, req, resp>>

\* hash = await bcrypt.hash(passcode, 10); user = {id: uuidv4(), ...}; studs.push(user)
StudRegisterHash(p) ==
    /\ pc[p] = "stud_hash"
    /\ \E salt \in Salts :
         LET user == [id |-> nextId, name |-> req[p].name, grade |-> req[p].grade,
                      section |-> req[p].section,
                      passHash |-> BcryptHash(req[p].passcode, salt)]
         IN loc' = [loc EXCEPT ![p].user = user, ![p].list = Append(@, user)]
    /\ nextId' = nextId + 1
    /\ pc' = [pc EXCEPT ![p] = "stud_save"]
    /\ UNCHANGED <<files, pages, req, resp>>

\* await writeJson(STUD_FILE, studs)
StudRegisterSave(p) ==
    /\ pc[p] = "stud_save"
    /\ files' = [files EXCEPT ![STUD_FILE] = [exists |-> TRUE, data |-> loc[p].list]]
    /\ pc' = [pc EXCEPT ![p] = "regen_read_students"]
    /\ UNCHANGED <<pages, req, loc, resp, nextId>>

\* writeJson(STUD_FILE, studs) rejects: the handler throws, the file keeps the
\* sequence it held
StudRegisterSaveFail(p) ==
    /\ pc[p] = "stud_save"
    /\ pc' = [pc EXCEPT ![p] = "threw_save"]
    /\ UNCHANGED <<files, pages, req, loc, resp, nextId>>

\* res.json({ user: sanitizeUser(user, 'student') })
StudRegisterRespond(p) ==
    /\ pc[p] = "respond"
    /\ req[p].route = "student/register"
    /\ resp' = [resp EXCEPT ![p] =
                   [status |-> 200, user |-> sanitizeUser(loc[p].user, "student")]]
    /\ pc' = [pc EXCEPT ![p] = "done"]
    /\ UNCHANGED <<files, pages, req, loc, nextId>>

\* ------------------------------------------------ POST /api/student/login
\* studs = await readJson(STUD_FILE); user = studs.find(...); without a
\* passcode the profile is returned at once
StudLoginLoad(p) ==
    /\ pc[p] = "handler"
    /\ req[p].route = "student/login"
    /\ LET studs == files[STUD_FILE].data
           i == FindStud(studs, OrEmpty(req[p].name), req[p].grade,
                         OrEmpty(req[p].section))
       IN IF i = 0
          THEN /\ resp' = [resp EXCEPT ![p] =
                              [status |-> 401, error |-> "Invalid credentials"]]
               /\ pc' = [pc EXCEPT ![p] = "done"]
               /\ UNCHANGED loc
          ELSE IF Truthy(req[p].passcode)
          THEN /\ loc' = [loc EXCEPT ![p].user = studs[i]]
               /\ pc' = [pc EXCEPT ![p] = "stud_compare"]
               /\ UNCHANGED resp
          ELSE /\ loc' = [loc EXCEPT ![p].user = studs[i]]
               /\ resp' = [resp EXCEPT ![p] =
                              [status |-> 200, user |-> sanitizeUser(studs[i], "student")]]
               /\ pc' = [pc EXCEPT ![p] = "done"]
    /\ UNCHANGED <<files, pages, req, nextId>>

\* ok = await bcrypt.compare(passcode, user.passHash)
StudLoginCompare(p) ==
    /\ pc[p] = "stud_compare"
    /\ resp' = [resp EXCEPT ![p] =
                   IF BcryptCompare(req[p].passcode, loc[p].user.passHash)
                   THEN [status |-> 200, user |-> sanitizeUser(loc[p].user, "student")]
                   ELSE [status |-> 401, error |-> "Invalid credentials"]]
    /\ pc' = [pc EXCEPT ![p] = "done"]
    /\ UNCHANGED <<files, pages, req, loc, nextId>>

\* ------------------------------------------- GET /api/profile/:role/:id
\* Array.prototype.find(u => u.id === id): index of the first match, 0 if none
FindById(list, id) ==
    IF \E i \in 1..Len(list) : list[i].id = id
    THEN CHOOSE i \in 1..Len(list) :
             /\ list[i].id = id
             /\ \A j \in 1..(i - 1) : list[j].id # id
    ELSE 0

\* list = await readJson(file); user = list.find(...); 404 or the profile
ProfileLoad(p) ==
    /\ pc[p] = "handler"
    /\ req[p].route = "profile"
    /\ LET file == IF req[p].role = "librarian" THEN LIB_FILE ELSE STUD_FILE
           list == files[file].data
           i == FindById(list, req[p].id)
       IN IF i = 0
          THEN /\ resp' = [resp EXCEPT ![p] = [status |-> 404, error |-> "Not found"]]
               /\ UNCHANGED loc
          ELSE /\ resp' = [resp EXCEPT ![p] =
                              [status |-> 200, user |-> sanitizeUser(list[i], req[p].role)]]
               /\ loc' = [loc EXCEPT ![p].user = list[i]]
    /\ pc' = [pc EXCEPT ![p] = "done"]
    /\ UNCHANGED <<files, pages, req, nextId>>

\* ------------------------------------------------------------ specification
Next ==
    \E p \in Procs :
        \/ Receive(p)
        \/ EnsureLibCheck(p)
        \/ EnsureLibWrite(p)
        \/ EnsureStudCheck(p)
        \/ EnsureStudWrite(p)
        \/ LibRegisterInvalid(p)
        \/ LibRegisterLoad(p)
        \/ LibRegisterHash(p)
        \/ LibRegisterSave(p)
        \/ LibRegisterRespond(p)
        \/ LibLoginLoad(p)
        \/ LibLoginCompare(p)
        \/ StudRegisterInvalid(p)
        \/ StudRegisterLoad(p)
        \/ StudRegisterHash(p)
        \/ StudRegisterSave(p)
        \/ StudRegisterRespond(p)
        \/ StudLoginLoad(p)
        \/ StudLoginCompare(p)
        \/ RegenReadStudents(p)
        \/ RegenReadLibs(p)
        \/ RegenWriteStudents(p)
        \/ RegenWriteLibs(p)
        \/ RegenFail(p)
        \/ LibRegisterLoadFail(p)
        \/ LibRegisterSaveFail(p)
        \/ StudRegisterLoadFail(p)
        \/ StudRegisterSaveFail(p)
        \/ ProfileLoad(p)

Spec == Init /\ [][Next]_vars

\* ------------------------------------------- register, then look the id up
\* One more request than Spec serves, drawn from fewer bodies: NumProcs
\* librarian registrations, and profile lookups of ids that a registration has
\* returned to its caller (an id is a random uuid; a caller has it only from
\* a response).
RoundTripProcs == 1..(NumProcs + 1)

RoundTripRegisters == {r \in LibRegisterRequests : r.username \in {ann, bob}}

InitRoundTrip ==
    /\ files = [f \in {LIB_FILE, STUD_FILE} |-> NoFile]
    /\ pages = [f \in {STUD_PAGE, LIB_PAGE} |-> NoPage]
    /\ pc = [p \in RoundTripProcs |-> "idle"]
    /\ req = [p \in RoundTripProcs |-> NoRequest]
    /\ loc = [p \in RoundTripProcs |-> NoLocals]
    /\ resp = [p \in RoundTripProcs |-> NoResponse]
    /\ nextId = 1

\* a registration arrives, or a lookup of the id of a record that a completed
\* registration returned
ReceiveRoundTrip(p) ==
    /\ pc[p] = "idle"
    /\ \/ /\ Cardinality({q \in RoundTripProcs :
                              req[q].route = "librarian/register"}) < NumProcs
          /\ \E r \in RoundTripRegisters : req' = [req EXCEPT ![p] = r]
       \/ \E q \in RoundTripProcs :
              /\ req[q].route = "librarian/register"
              /\ resp[q].status = 200
              /\ req' = [req EXCEPT ![p] = [route |-> "profile",
                                            role |-> resp[q].user.role,
                                            id |-> resp[q].user.id]]
    /\ pc' = [pc EXCEPT ![p] = "ensure_lib"]
    /\ UNCHANGED <<files, pages, loc, resp, nextId>>

NextRoundTrip ==
    \E p \in RoundTripProcs :
        \/ ReceiveRoundTrip(p)
        \/ EnsureLibCheck(p)
        \/ EnsureLibWrite(p)
        \/ EnsureStudCheck(p)
        \/ EnsureStudWrite(p)
        \/ LibRegisterLoad(p)
        \/ LibRegisterHash(p)
        \/ LibRegisterSave(p)
        \/ LibRegisterRespond(p)
        \/ RegenReadStudents(p)
        \/ RegenReadLibs(p)
        \/ RegenWriteStudents(p)
        \/ RegenWriteLibs(p)
        \/ ProfileLoad(p)

SpecRoundTrip == InitRoundTrip /\ [][NextRoundTrip]_vars

\* ------------------------------------------------ texts to be escaped
\* One request at a time, a registration whose free-text fields are drawn
\* from all strings of EscapeLen characters over an alphabet that holds the
\* four characters escapeHtml replaces.
EscapeLen == 3

EscapeAlphabet == {"&", "<", ">", "\"", "a", ";"}

EscapeTexts == [1..EscapeLen -> EscapeAlphabet]

EscapeProcs == {1}

EscapeRequests ==
    {[route |-> "student/register", name |-> t, grade |-> <<g>>, section |-> <<c>>,
      passcode |-> Passcode1] : t \in EscapeTexts, g \in EscapeAlphabet, c \in EscapeAlphabet}
    \cup {[route |-> "librarian/register", username |-> ann, fullname |-> t,
            password |-> Password1] : t \in EscapeTexts}

InitEscape ==
    /\ files = [f \in {LIB_FILE, STUD_FILE} |-> NoFile]
    /\ pages = [f \in {STUD_PAGE, LIB_PAGE} |-> NoPage]
    /\ pc = [p \in EscapeProcs |-> "idle"]
    /\ req = [p \in EscapeProcs |-> NoRequest]
    /\ loc = [p \in EscapeProcs |-> NoLocals]
    /\ resp = [p \in EscapeProcs |-> NoResponse]
    /\ nextId = 1

ReceiveEscape(p) ==
    /\ pc[p] = "idle"
    /\ \E r \in EscapeRequests : req' = [req EXCEPT ![p] = r]
    /\ pc' = [pc EXCEPT ![p] = "ensure_lib"]
    /\ UNCHANGED <<files, pages, loc, resp, nextId>>

NextEscape ==
    \E p \in EscapeProcs :
        \/ ReceiveEscape(p)
        \/ EnsureLibCheck(p)
        \/ EnsureLibWrite(p)
        \/ EnsureStudCheck(p)
        \/ EnsureStudWrite(p)
        \/ LibRegisterLoad(p)
        \/ LibRegisterHash(p)
        \/ LibRegisterSave(p)
        \/ LibRegisterRespond(p)
        \/ StudRegisterLoad(p)
        \/ StudRegisterHash(p)
        \/ StudRegisterSave(p)
        \/ StudRegisterRespond(p)
        \/ RegenReadStudents(p)
        \/ RegenReadLibs(p)
        \/ RegenWriteStudents(p)
        \/ RegenWriteLibs(p)

SpecEscape == InitEscape /\ [][NextEscape]_vars

\* ================================================================== claims
\* vocabulary of the claims, stated apart from the operators of the handlers
Librarians == files[LIB_FILE].data
Students == files[STUD_FILE].data

\* equality of two strings under case-insensitive comparison
SameIgnoringCase(a, b) ==
    /\ Len(a) = Len(b)
    /\ \A i \in 1..Len(a) : LowerChar(a[i]) = LowerChar(b[i])

\* the uniqueness keys of two student records (or candidates) collide
StudentsCollide(s, t) ==
    /\ SameIgnoringCase(s.name, t.name)
    /\ s.grade = t.grade
    /\ SameIgnoringCase(s.section, t.section)

IsLogin(p) == req[p].route \in {"librarian/login", "student/login"}
Succeeded(p) == resp[p].status = 200
Threw == {"threw", "threw_load", "threw_save", "threw_regen"}
Quiescent == \A p \in Procs : pc[p] \in {"idle", "done"} \cup Threw

\* C1: in every reachable state no two stored librarian records have usernames
\* that are equal under case-insensitive comparison.
C1_LibrarianUsernamesDistinct ==
    \A i, j \in 1..Len(Librarians) :
        i # j => ~SameIgnoringCase(Librarians[i].username, Librarians[j].username)

\* two librarians are stored after two successful registrations
C1_Witness ==
    /\ Len(Librarians) = 2
    /\ \A p \in Procs : req[p].route = "librarian/register" /\ Succeeded(p)

\* C2: in every reachable state no two stored student records collide on
\* (name, grade, section), name and section compared case-insensitively and
\* grade exactly; a valid candidate is refused exactly when it collides in this
\* sense with a record it loaded (in the step in which its load succeeds), so
\* that candidates differing only in the case of grade are both registered.
C2_StudentKeysDistinct ==
    /\ [](\A i, j \in 1..Len(Students) :
             i # j => ~StudentsCollide(Students[i], Students[j]))
    /\ [][\A p \in Procs :
             (/\ req[p].route = "student/register"
              /\ StudRegisterValid(req[p])
              /\ pc[p] = "handler"
              /\ pc'[p] \notin {"handler", "threw_load"})
                 => (resp'[p].status = 409
                        <=> \E i \in 1..Len(Students) :
                                StudentsCollide(Students[i], req[p]))]_vars

\* both of two candidates that differ only in the case of grade are stored
C2_Witness ==
    /\ Len(Students) = 2
    /\ SameIgnoringCase(Students[1].name, Students[2].name)
    /\ SameIgnoringCase(Students[1].section, Students[2].section)
    /\ Students[1].grade # Students[2].grade
    /\ SameIgnoringCase(Students[1].grade, Students[2].grade)

\* the candidate of register request p collides with a record of the stored
\* sequence (the sequence the request loads in this step)
CollidesWithStored(p) ==
    \/ /\ req[p].route = "librarian/register"
       /\ LibRegisterValid(req[p])
       /\ \E i \in 1..Len(Librarians) :
              SameIgnoringCase(Librarians[i].username, req[p].username)
    \/ /\ req[p].route = "student/register"
       /\ StudRegisterValid(req[p])
       /\ \E i \in 1..Len(Students) : StudentsCollide(Students[i], req[p])

\* C3: a register request that loads a sequence holding a colliding record ends
\* with DuplicateKey (409) in that step, writes nothing, regenerates nothing and
\* leaves the stored sequences unchanged; once refused it takes no further step.
C3_DuplicateRefusedWithoutWrite ==
    [][\A p \in Procs :
          /\ (/\ pc[p] = "handler"
              /\ pc'[p] \notin {"handler", "threw_load"}
              /\ CollidesWithStored(p))
                => /\ resp'[p].status = 409
                   /\ pc'[p] = "done"
                   /\ files' = files
                   /\ pages' = pages
          /\ resp[p].status = 409
                => /\ pc'[p] = "done"
                   /\ resp'[p] = resp[p]
                   /\ loc'[p].user = NoUser]_vars

\* ann is stored and the registration of ANN has been refused
C3_Witness ==
    \E p \in Procs :
        /\ req[p].route = "librarian/register"
        /\ req[p].username = ANN
        /\ resp[p].status = 409
        /\ Len(Librarians) = 1
        /\ Librarians[1].username = ann

\* C4: a record that is in a stored sequence is in it, with the same fields, in
\* every later state.
C4_StoredRecordsStay ==
    [][\A f \in {LIB_FILE, STUD_FILE} :
          \A i \in 1..Len(files[f].data) :
              \E j \in 1..Len(files'[f].data) :
                  files'[f].data[j] = files[f].data[i]]_vars

\* the entries a kind's page lists for a stored sequence: the public fields of
\* each record, escaped, in the order of the sequence
EntriesOfLibrarians(libs) ==
    [i \in 1..Len(libs) |->
        [title |-> EscapeSeq(libs[i].fullname), username |-> EscapeSeq(libs[i].username)]]

EntriesOfStudents(studs) ==
    [i \in 1..Len(studs) |->
        [name |-> EscapeSeq(studs[i].name), grade |-> EscapeSeq(studs[i].grade),
         section |-> EscapeSeq(studs[i].section)]]

RegisteredOk(route) == {p \in Procs : req[p].route = route /\ Succeeded(p)}

\* C5: whenever no request is in progress, the page of a kind for which an
\* insert has completed lists exactly the records of that kind's stored sequence.
C5_QuiescentPagesMatchStore ==
    Quiescent =>
        /\ RegisteredOk("librarian/register") # {}
              => /\ pages[LIB_PAGE].exists
                 /\ pages[LIB_PAGE].cards = EntriesOfLibrarians(Librarians)
        /\ RegisteredOk("student/register") # {}
              => /\ pages[STUD_PAGE].exists
                 /\ pages[STUD_PAGE].cards = EntriesOfStudents(Students)

\* C6: once all requests have completed, N of them successful registrations of
\* a kind, that kind's page holds exactly N entries, those of the stored records
\* in insertion order, and no entry has a field other than the public ones.
C6_PageHasOneEntryPerSuccess ==
    Quiescent =>
        /\ LET n == Cardinality(RegisteredOk("librarian/register")) IN
           n > 0 => /\ Len(pages[LIB_PAGE].cards) = n
                    /\ pages[LIB_PAGE].cards = EntriesOfLibrarians(Librarians)
                    /\ \A i \in 1..n :
                           DOMAIN pages[LIB_PAGE].cards[i] = {"title", "username"}
        /\ LET n == Cardinality(RegisteredOk("student/register")) IN
           n > 0 => /\ Len(pages[STUD_PAGE].cards) = n
                    /\ pages[STUD_PAGE].cards = EntriesOfStudents(Students)
                    /\ \A i \in 1..n :
                           DOMAIN pages[STUD_PAGE].cards[i] = {"name", "grade", "section"}

\* C7: the ids within a stored sequence are pairwise distinct in every reachable
\* state, and the ids returned by the successful registrations of a kind are
\* pairwise distinct.
C7_IdsDistinct ==
    /\ \A f \in {LIB_FILE, STUD_FILE} :
           \A i, j \in 1..Len(files[f].data) :
               i # j => files[f].data[i].id # files[f].data[j].id
    /\ \A route \in {"librarian/register", "student/register"} :
           \A p, q \in RegisteredOk(route) :
               p # q => resp[p].user.id # resp[q].user.id

\* two registrations of one kind have both returned a record
C7_Witness ==
    \E route \in {"librarian/register", "student/register"} :
        Cardinality(RegisteredOk(route)) = 2

\* the secret a stored record was registered with, and the hash field of a record
HashOf(user) == IF "passwordHash" \in DOMAIN user THEN user.passwordHash ELSE user.passHash
RegisteredSecret(user) == HashOf(user).digest[3]
InvalidCredentials == [status |-> 401, error |-> "Invalid credentials"]

\* the record a completed login request found under its key, NoUser if none
Matched(p) == loc[p].user

\* C8: a login with a key that matches a stored record answers with that
\* record's profile, without hash, when the secret is the one the record was
\* registered with, and with InvalidCredentials when a different secret is
\* supplied; a login whose key matches no record answers InvalidCredentials.
C8_LoginOutcomes ==
    \A p \in Procs :
        (IsLogin(p) /\ pc[p] = "done") =>
            LET secret == IF req[p].route = "librarian/login"
                          THEN req[p].password ELSE req[p].passcode
                role == IF req[p].route = "librarian/login"
                        THEN "librarian" ELSE "student"
            IN /\ Matched(p) = NoUser => resp[p] = InvalidCredentials
               /\ (Matched(p) # NoUser /\ secret = RegisteredSecret(Matched(p)))
                     => /\ resp[p].status = 200
                        /\ resp[p].user = [f \in DOMAIN Matched(p) \ {"passwordHash", "passHash"}
                                              |-> Matched(p)[f]] @@ [role |-> role]
               /\ (Matched(p) # NoUser /\ secret # Undefined
                      /\ secret # RegisteredSecret(Matched(p)))
                     => resp[p] = InvalidCredentials

C10_OnlyStudentLoginSkipsSecret ==
    \A p \in Procs :
        /\ (/\ req[p].route = "student/login"
            /\ pc[p] = "done"
            /\ Matched(p) # NoUser
            /\ req[p].passcode = Undefined)
              => /\ resp[p].status = 200
                 /\ resp[p].user.id = Matched(p).id
        /\ (req[p].route = "librarian/login" /\ resp[p].status = 200)
              => /\ req[p].password # Undefined
                 /\ Matched(p) # NoUser
                 /\ req[p].password = RegisteredSecret(Matched(p))

\* a student login without passcode has been answered with a profile
C10_Witness ==
    \E p \in Procs :
        /\ req[p].route = "student/login"
        /\ req[p].passcode = Undefined
        /\ resp[p].status = 200

\* C11: a profile lookup of an id, issued after a registration of that kind has
\* returned a record with that id, is answered with a record equal to the
\* returned one on id, the kind's public fields and role: never with NotFound.
\* (Under SpecRoundTrip every lookup is issued after such a registration returned.)
C11_GetByIdReturnsRegistered ==
    \A p \in DOMAIN pc :
        (req[p].route = "profile" /\ pc[p] = "done") =>
            \A q \in DOMAIN pc :
                (/\ req[q].route \in {"librarian/register", "student/register"}
                 /\ resp[q].status = 200
                 /\ resp[q].user.role = req[p].role
                 /\ resp[q].user.id = req[p].id)
                    => resp[p] = [status |-> 200, user |-> resp[q].user]

RegisterRoutes == {"librarian/register", "student/register"}
RegenPcs == {"regen_read_students", "regen_read_libs",
             "regen_write_students", "regen_write_libs"}

\* the file a register request saves to
FileOf(p) == IF req[p].route = "librarian/register" THEN LIB_FILE ELSE STUD_FILE

\* C12: a register request whose regeneration failed (its save had succeeded)
\* has been answered with success and the inserted record.
C12_RenderFailureStillSucceeds ==
    \A p \in Procs :
        pc[p] = "threw_regen"
            => /\ resp[p].status = 200
               /\ resp[p].user.id = loc[p].user.id

\* C13: a register request whose load or save failed is never answered and
\* takes no further step, so it regenerates nothing; a register request starts
\* regeneration only in the step in which its save writes its sequence, reaches
\* the later steps of regeneration only through the earlier ones, and is
\* answered with success only after regeneration.
C13_StorageFailureAborts ==
    [][\A p \in Procs :
          /\ pc[p] \in {"threw_load", "threw_save"}
                => /\ pc'[p] = pc[p]
                   /\ resp'[p] = NoResponse
          /\ (pc'[p] \in {"threw_load", "threw_save"} /\ pc'[p] # pc[p])
                => /\ resp'[p] = NoResponse
                   /\ pages' = pages
          /\ (req[p].route \in RegisterRoutes /\ pc'[p] # pc[p])
                => /\ pc'[p] = "regen_read_students"
                      => /\ pc[p] \in {"lib_save", "stud_save"}
                         /\ files'[FileOf(p)] = [exists |-> TRUE, data |-> loc[p].list]
                         /\ loc[p].list[Len(loc[p].list)] = loc[p].user
                   /\ pc'[p] = "regen_read_libs" => pc[p] = "regen_read_students"
                   /\ pc'[p] = "regen_write_students" => pc[p] = "regen_read_libs"
                   /\ pc'[p] = "regen_write_libs" => pc[p] = "regen_write_students"
                   /\ pc'[p] = "respond" => pc[p] = "regen_write_libs"
                   /\ resp'[p].status = 200 => pc[p] = "respond"]_vars

\* one register request has stopped at a failed load and another at a failed save
C13_Witness ==
    \E p, q \in Procs :
        /\ pc[p] = "threw_load" /\ resp[p] = NoResponse
        /\ pc[q] = "threw_save" /\ resp[q] = NoResponse

\* the records of a sequence
Records(list) == {list[i] : i \in 1..Len(list)}

\* the sequence a register request loaded, before it pushed its record
Prior(p) == SubSeq(loc[p].list, 1, Len(loc[p].list) - 1)

\* register request p has pushed its record and its save has completed
Saved(p) ==
    /\ req[p].route \in RegisterRoutes
    /\ loc[p].user # NoUser
    /\ pc[p] \in RegenPcs \cup {"respond", "done", "threw_regen"}

\* p and q are register requests of one kind that loaded the same sequence
\* and both passed the uniqueness check
LoadedSamePrior(p, q) ==
    /\ p # q
    /\ req[p].route \in RegisterRoutes
    /\ req[q].route = req[p].route
    /\ loc[p].user # NoUser
    /\ loc[q].user # NoUser
    /\ Prior(p) = Prior(q)

\* C14: when register request q saves after a register request p of the same
\* kind that loaded the same prior sequence has saved, the stored sequence
\* afterwards is q's, with q's record and without p's; and when both have
\* returned success the stored sequence still holds the record of one of them
\* only. (That such an execution is reachable is C14_Witness.)
C14_LaterSaveDiscardsEarlier ==
    /\ [](\A p, q \in Procs :
             (LoadedSamePrior(p, q) /\ Succeeded(p) /\ Succeeded(q))
                 => \/ /\ files[FileOf(p)].data = loc[p].list
                       /\ loc[q].user \notin Records(files[FileOf(p)].data)
                    \/ /\ files[FileOf(p)].data = loc[q].list
                       /\ loc[p].user \notin Records(files[FileOf(p)].data))
    /\ [][\A p, q \in Procs :
             (/\ LoadedSamePrior(p, q)
              /\ Saved(p)
              /\ pc[q] \in {"lib_save", "stud_save"}
              /\ pc'[q] = "regen_read_students")
                 => /\ files'[FileOf(q)].data = loc[q].list
                    /\ loc[q].user \in Records(files'[FileOf(q)].data)
                    /\ loc[p].user \notin Records(files'[FileOf(q)].data)]_vars

\* two librarian registrations loaded the same sequence, both saved, both
\* returned success, and the file holds the second record without the first
C14_Witness ==
    \E p, q \in Procs :
        /\ LoadedSamePrior(p, q)
        /\ req[p].route = "librarian/register"
        /\ Succeeded(p)
        /\ Succeeded(q)
        /\ Librarians = loc[q].list
        /\ loc[p].user \notin Records(Librarians)

\* the place of a position in the order of a register request's steps: load and
\* uniqueness check, hash and id assignment, save, the four steps of
\* regeneration, response
StepOrder(pos) ==
    CASE pos = "handler" -> 1
      [] pos \in {"lib_hash", "stud_hash"} -> 2
      [] pos \in {"lib_save", "stud_save"} -> 3
      [] pos = "regen_read_students" -> 4
      [] pos = "regen_read_libs" -> 5
      [] pos = "regen_write_students" -> 6
      [] pos = "regen_write_libs" -> 7
      [] pos = "respond" -> 8
      [] OTHER -> 0

\* C15: a register request passes load and check, id assignment, save and
\* regeneration one after the other in that order; the sequences its
\* regeneration renders are assigned only by regeneration's reads, which come
\* after the request's own save and take what the files hold at that moment,
\* and the page of each kind is rendered from the sequence so read.
C15_RegenerationReadsAfterOwnSave ==
    [][\A p \in Procs :
          (req[p].route \in RegisterRoutes /\ pc'[p] # pc[p]) =>
              /\ StepOrder(pc'[p]) > 1 => StepOrder(pc'[p]) = StepOrder(pc[p]) + 1
              /\ pc[p] = "regen_read_students"
                    => /\ Saved(p)
                       /\ pc'[p] \in {"regen_read_libs", "threw_regen"}
                       /\ pc'[p] = "regen_read_libs"
                             => loc'[p].students = files[STUD_FILE].data
              /\ pc[p] = "regen_read_libs"
                    => /\ Saved(p)
                       /\ pc'[p] = "regen_write_students"
                             => loc'[p].libs = files[LIB_FILE].data
              /\ pc[p] # "regen_read_students" => loc'[p].students = loc[p].students
              /\ pc[p] # "regen_read_libs" => loc'[p].libs = loc[p].libs
              /\ (pc[p] = "regen_write_students" /\ pc'[p] = "regen_write_libs")
                    => pages'[STUD_PAGE] = generateStudentsListPage(loc[p].students)
              /\ (pc[p] = "regen_write_libs" /\ pc'[p] = "respond")
                    => pages'[LIB_PAGE] = generateLibrariansListPage(loc[p].libs)]_vars

\* a librarian registration has saved and then read, for its regeneration, a
\* sequence that holds the record it saved
C15_Witness ==
    \E p \in Procs :
        /\ req[p].route = "librarian/register"
        /\ pc[p] = "regen_write_students"
        /\ loc[p].user \in Records(loc[p].libs)

\* C16: a register request is answered with success only from the end of a
\* regeneration of its own, which it passes once: it has read the stored
\* sequences of both kinds, then overwritten the students page, then the
\* librarians page, each with the rendering of the sequence read, and only
\* then responds; at the response both pages exist.
C16_RegisterRegeneratesBothPages ==
    /\ [](\A p \in Procs :
             (req[p].route \in RegisterRoutes /\ (pc[p] = "respond" \/ Succeeded(p)))
                 => /\ pages[STUD_PAGE].exists
                    /\ pages[LIB_PAGE].exists)
    /\ [][\A p \in Procs :
             (req[p].route \in RegisterRoutes /\ pc'[p] # pc[p]) =>
                 /\ pc'[p] = "regen_read_libs"
                       => /\ loc'[p].students = files[STUD_FILE].data
                          /\ pages' = pages
                 /\ pc'[p] = "regen_write_students"
                       => /\ loc'[p].libs = files[LIB_FILE].data
                          /\ pages' = pages
                 /\ pc'[p] = "regen_write_libs"
                       => /\ pages'[STUD_PAGE] = generateStudentsListPage(loc[p].students)
                          /\ pages'[LIB_PAGE] = pages[LIB_PAGE]
                 /\ pc'[p] = "respond"
                       => /\ pc[p] = "regen_write_libs"
                          /\ pages'[LIB_PAGE] = generateLibrariansListPage(loc[p].libs)
                          /\ pages'[STUD_PAGE] = pages[STUD_PAGE]
                 /\ resp'[p].status = 200
                       => /\ pc[p] = "respond"
                          /\ pages' = pages
                 /\ pc[p] \in {"respond", "done"} => pc'[p] = "done"]_vars

\* a student registration has returned success and both pages have been
\* written, the librarians page with its placeholder
C16_Witness ==
    \E p \in Procs :
        /\ req[p].route = "student/register"
        /\ Succeeded(p)
        /\ pages[STUD_PAGE].exists
        /\ Len(pages[STUD_PAGE].cards) > 0
        /\ pages[LIB_PAGE].exists
        /\ pages[LIB_PAGE].placeholder

\* C17: the sequence a register request saves is the sequence it loaded with
\* its new record as the last element: the request's list is the stored
\* sequence when loaded, gets exactly the new record appended at the end, is
\* changed by no other step, and is what the save writes.
C17_SavedIsLoadedPlusAppended ==
    [][\A p \in Procs :
          (req[p].route \in RegisterRoutes /\ pc'[p] # pc[p]) =>
              /\ pc'[p] \in {"lib_hash", "stud_hash"}
                    => loc'[p].list = files[FileOf(p)].data
              /\ pc'[p] \in {"lib_save", "stud_save"}
                    => /\ Len(loc'[p].list) = Len(loc[p].list) + 1
                       /\ \A i \in 1..Len(loc[p].list) : loc'[p].list[i] = loc[p].list[i]
                       /\ loc'[p].list[Len(loc'[p].list)] = loc'[p].user
                       /\ loc'[p].user.id = nextId
              /\ pc[p] \notin {"handler", "lib_hash", "stud_hash"}
                    => loc'[p].list = loc[p].list
              /\ pc'[p] = "regen_read_students"
                    => /\ files'[FileOf(p)].data = loc[p].list
                       /\ files'[FileOf(p)].data = Append(Prior(p), loc[p].user)]_vars

\* a register request that loaded a sequence of one record has saved a
\* sequence of two
C17_Witness ==
    \E p \in Procs :
        /\ Saved(p)
        /\ Len(Prior(p)) = 1
        /\ files[FileOf(p)].data = loc[p].list

\* C18: no step replaces a stored sequence that is non-empty by the empty
\* sequence (ensureFiles writes the empty sequence only to an absent container).
C18_EnsureFilesKeepsContents ==
    [][\A f \in {LIB_FILE, STUD_FILE} :
          files[f].data # <<>> => files'[f].data # <<>>]_vars

\* C19: a step of a login or profile request taken when both containers exist
\* changes neither file nor page, and no step of a register request of one
\* kind changes the stored sequence of the other kind.
C19_FrameOfRequests ==
    [][\A p \in Procs :
          pc'[p] # pc[p] =>
              /\ (/\ req[p].route \in {"librarian/login", "student/login", "profile"}
                  /\ files[LIB_FILE].exists
                  /\ files[STUD_FILE].exists)
                    => /\ files' = files
                       /\ pages' = pages
              /\ req[p].route = "librarian/register"
                    => files'[STUD_FILE].data = files[STUD_FILE].data
              /\ req[p].route = "student/register"
                    => files'[LIB_FILE].data = files[LIB_FILE].data]_vars

\* the four entities escapeHtml may produce
Entities ==
    {<<"&", "a", "m", "p", ";">>, <<"&", "l", "t", ";">>,
     <<"&", "g", "t", ";">>, <<"&", "q", "u", "o", "t", ";">>}

\* one of the entities starts at position i of v
EntityAt(v, i) ==
    \E e \in Entities :
        /\ i + Len(e) - 1 <= Len(v)
        /\ SubSeq(v, i, i + Len(e) - 1) = e

\* v holds none of < > " and holds & only as the start of an entity
Harmless(v) ==
    \A i \in 1..Len(v) :
        /\ v[i] \notin {"<", ">", "\""}
        /\ v[i] = "&" => EntityAt(v, i)

\* escapeHtml of every text of EscapeLen characters over the alphabet is harmless
EscapeOutputsHarmless == \A t \in EscapeTexts : Harmless(escapeHtml(t))

\* C20: the output of escapeHtml for every text of EscapeLen characters over
\* the alphabet holds none of < > " and holds & only as the start of one of
\* &amp; &lt; &gt; &quot;; every text field of every card of both pages is
\* such an output, and after a successful registration the fields of the cards
\* are escapeHtml of the stored records' fields.
C20_PagesHoldOnlyEscapedText ==
    /\ EscapeOutputsHarmless
    /\ \A i \in 1..Len(pages[STUD_PAGE].cards) :
           /\ Harmless(pages[STUD_PAGE].cards[i].name)
           /\ Harmless(pages[STUD_PAGE].cards[i].grade)
           /\ Harmless(pages[STUD_PAGE].cards[i].section)
    /\ \A i \in 1..Len(pages[LIB_PAGE].cards) :
           /\ Harmless(pages[LIB_PAGE].cards[i].title)
           /\ Harmless(pages[LIB_PAGE].cards[i].username)
    /\ \A p \in DOMAIN pc :
           Succeeded(p) =>
               /\ Len(pages[STUD_PAGE].cards) = Len(Students)
               /\ \A i \in 1..Len(Students) :
                      /\ pages[STUD_PAGE].cards[i].name = escapeHtml(Students[i].name)
                      /\ pages[STUD_PAGE].cards[i].grade = escapeHtml(Students[i].grade)
                      /\ pages[STUD_PAGE].cards[i].section = escapeHtml(Students[i].section)
               /\ Len(pages[LIB_PAGE].cards) = Len(Librarians)
               /\ \A i \in 1..Len(Librarians) :
                      /\ pages[LIB_PAGE].cards[i].title = escapeHtml(Librarians[i].fullname)
                      /\ pages[LIB_PAGE].cards[i].username = escapeHtml(Librarians[i].username)

\* the students page lists a student registered under the name <&" with the
\* three characters replaced by their entities
C20_Witness ==
    /\ Len(Students) = 1
    /\ Students[1].name = <<"<", "&", "\"">>
    /\ Len(pages[STUD_PAGE].cards) = 1
    /\ pages[STUD_PAGE].cards[1].name =
           <<"&", "l", "t", ";", "&", "a", "m", "p", ";", "&", "q", "u", "o", "t", ";">>

====
